---- MODULE Spec2Model ----
(***************************************************************************)
(* Model of app/docx_template_apply.py: apply_template_to_docx and the     *)
(* package rewrite _replace_header_footer_parts.                           *)
(*                                                                         *)
(* A package (zip file) is a sequence of entries [name, data].  Entry      *)
(* names are real strings, so that the prefix/suffix tests and the sort of *)
(* the code are computed, not assumed.  The data of an opaque entry is     *)
(* [kind |-> "bin", b |-> n]; the three XML parts the code parses are      *)
(* held as their element trees.                                            *)
(***************************************************************************)
EXTENDS Integers, Sequences, FiniteSets, TLC

(***************************************************************************)
(* Bounds of the model.                                                    *)
(***************************************************************************)
MaxSects == 3

(***************************************************************************)
(* Strings: str.startswith, str.endswith, str.lower, os.path.basename and  *)
(* the code-point order sorted() uses.                                     *)
(***************************************************************************)
StartsWith(s, p) == Len(s) >= Len(p) /\ SubSeq(s, 1, Len(p)) = p

EndsWith(s, p) == Len(s) >= Len(p) /\ SubSeq(s, Len(s) - Len(p) + 1, Len(s)) = p

CharAt(s, i) == SubSeq(s, i, i)

\* The characters of the names used, in increasing code-point order.
Alphabet == "./0123456789ABCDEFGHIJKLMNOPQRSTUVWXYZ[]_abcdefghijklmnopqrstuvwxyz"

UpperChars == "ABCDEFGHIJKLMNOPQRSTUVWXYZ"

LowerChars == "abcdefghijklmnopqrstuvwxyz"

CharCode(c) == CHOOSE i \in 1..Len(Alphabet) : CharAt(Alphabet, i) = c

LowerChar(c) ==
    IF \E i \in 1..Len(UpperChars) : CharAt(UpperChars, i) = c
    THEN CharAt(LowerChars, CHOOSE i \in 1..Len(UpperChars) : CharAt(UpperChars, i) = c)
    ELSE c

RECURSIVE Lower(_)
Lower(s) == IF Len(s) = 0 THEN "" ELSE LowerChar(CharAt(s, 1)) \o Lower(SubSeq(s, 2, Len(s)))

\* a < b as Python compares str: first differing code point, else the shorter.
RECURSIVE StrLess(_, _)
StrLess(a, b) ==
    IF Len(b) = 0 THEN FALSE
    ELSE IF Len(a) = 0 THEN TRUE
    ELSE IF CharAt(a, 1) = CharAt(b, 1)
         THEN StrLess(SubSeq(a, 2, Len(a)), SubSeq(b, 2, Len(b)))
         ELSE CharCode(CharAt(a, 1)) < CharCode(CharAt(b, 1))

\* os.path.basename: what follows the last "/".
Basename(n) ==
    LET slashes == {i \in 1..Len(n) : CharAt(n, i) = "/"}
    IN  IF slashes = {} THEN n
        ELSE SubSeq(n, (CHOOSE i \in slashes : \A j \in slashes : j <= i) + 1, Len(n))

(***************************************************************************)
(* Names and type strings of the code.                                     *)
(***************************************************************************)
DocName == "word/document.xml"

DocRelsName == "word/_rels/document.xml.rels"

ContentTypesName == "[Content_Types].xml"

HeaderOut == "word/header1.xml"

FooterOut == "word/footer1.xml"

HeaderRelsOut == "word/_rels/header1.xml.rels"

FooterRelsOut == "word/_rels/footer1.xml.rels"

HeaderRelType == "http://schemas.openxmlformats.org/officeDocument/2006/relationships/header"

FooterRelType == "http://schemas.openxmlformats.org/officeDocument/2006/relationships/footer"

ImageRelType == "http://schemas.openxmlformats.org/officeDocument/2006/relationships/image"

HeaderContentType == "application/vnd.openxmlformats-officedocument.wordprocessingml.header+xml"

FooterContentType == "application/vnd.openxmlformats-officedocument.wordprocessingml.footer+xml"

DocContentType == "application/vnd.openxmlformats-officedocument.wordprocessingml.document.main+xml"

BaseRid == 9001

(***************************************************************************)
(* Part classification (the nested predicates of the rewrite).             *)
(***************************************************************************)
is_header_footer_part(n) ==
    (StartsWith(n, "word/header") \/ StartsWith(n, "word/footer")) /\ EndsWith(n, ".xml")

is_header_footer_rels(n) ==
    LET base == Basename(n)
    IN  /\ StartsWith(n, "word/_rels/")
        /\ (StartsWith(base, "header") \/ StartsWith(base, "footer"))
        /\ EndsWith(base, ".rels")

(***************************************************************************)
(* zipfile.ZipFile: namelist, read (the last entry of a name), writestr    *)
(* (appends an entry).                                                     *)
(***************************************************************************)
Namelist(z) == {z[i].name : i \in 1..Len(z)}

HasEntry(z, n) == n \in Namelist(z)

ZipRead(z, n) ==
    z[CHOOSE i \in 1..Len(z) : z[i].name = n /\ \A j \in 1..Len(z) : z[j].name = n => j <= i].data

Writestr(z, n, d) == Append(z, [name |-> n, data |-> d])

Bin(n) == [kind |-> "bin", b |-> n]

\* Python's None, for the optional strings and the optional byte buffers.
None == "None"

NoData == [kind |-> "none"]

(***************************************************************************)
(* Element trees of the three parsed parts.                                *)
(***************************************************************************)
Relationship(id, type, target) ==
    [tag |-> "Relationship", Id |-> id, Type |-> type, Target |-> target]

RelsTree(children) == [kind |-> "rels", children |-> children]

\* A child of w:sectPr: a header/footer reference, or any other element.
SectChild(tag, type, id) == [tag |-> tag, type |-> type, id |-> id]

\* w:document: whether it has a w:body, and the children of each w:sectPr
\* under the body, in document order.
DocTree(hasBody, sects) == [kind |-> "doc", hasBody |-> hasBody, sects |-> sects]

Override(part, ctype) == [tag |-> "Override", PartName |-> part, ContentType |-> ctype]

DefaultExt(ext, ctype) == [tag |-> "Default", Extension |-> ext, ContentType |-> ctype]

TypesTree(children) == [kind |-> "ct", children |-> children]

(***************************************************************************)
(* _replace_header_footer_parts, phase by phase.  loc holds its locals.    *)
(***************************************************************************)
InitLocals ==
    [ doc_xml_bytes |-> NoData, doc_rels_bytes |-> NoData, content_types_bytes |-> NoData,
      tpl_header_name |-> None, tpl_header_bytes |-> NoData,
      tpl_footer_name |-> None, tpl_footer_bytes |-> NoData,
      header_rel_id |-> None, footer_rel_id |-> None,
      rels_root |-> NoData, doc_root |-> NoData, ct_root |-> NoData ]

\* The source loop: which names are copied to the output as they are.
IsCopied(n) ==
    /\ n # DocName
    /\ n # DocRelsName
    /\ n # ContentTypesName
    /\ ~(is_header_footer_part(n) \/ is_header_footer_rels(n))

Buffered(z, n) == IF HasEntry(z, n) THEN ZipRead(z, n) ELSE NoData

RECURSIVE CopyLoop(_, _, _)
CopyLoop(src_zip, i, o) ==
    IF i > Len(src_zip) THEN o
    ELSE LET n == src_zip[i].name
         IN  CopyLoop(src_zip, i + 1,
                      IF IsCopied(n) THEN Writestr(o, n, ZipRead(src_zip, n)) ELSE o)

CopySourceParts(src_zip, o) == CopyLoop(src_zip, 1, o)

BufferCoreParts(src_zip, l) ==
    [l EXCEPT !.doc_xml_bytes = Buffered(src_zip, DocName),
              !.doc_rels_bytes = Buffered(src_zip, DocRelsName),
              !.content_types_bytes = Buffered(src_zip, ContentTypesName)]

\* _collect_headers_footers_from_template: the names of the two dicts.
TplHeaderNames(tpl_zip) ==
    {n \in Namelist(tpl_zip) : StartsWith(n, "word/header") /\ EndsWith(n, ".xml")}

TplFooterNames(tpl_zip) ==
    {n \in Namelist(tpl_zip) :
        /\ ~(StartsWith(n, "word/header") /\ EndsWith(n, ".xml"))
        /\ StartsWith(n, "word/footer") /\ EndsWith(n, ".xml")}

\* Mutant: the last of the sorted names.
PickLastName(names) ==
    IF names = {} THEN None
    ELSE CHOOSE n \in names : \A m \in names : m = n \/ StrLess(m, n)

\* _pick_first_part: sorted(parts.keys())[0], or None.
PickFirstName(names) ==
    IF names = {} THEN None
    ELSE CHOOSE n \in names : \A m \in names : m = n \/ StrLess(n, m)

PickTemplateParts(tpl_zip, l) ==
    LET hn == PickFirstName(TplHeaderNames(tpl_zip))
        fn == PickFirstName(TplFooterNames(tpl_zip))
    IN  [l EXCEPT !.tpl_header_name = hn,
                  !.tpl_header_bytes = IF hn = None THEN NoData ELSE ZipRead(tpl_zip, hn),
                  !.tpl_footer_name = fn,
                  !.tpl_footer_bytes = IF fn = None THEN NoData ELSE ZipRead(tpl_zip, fn)]

\* _ensure_media_dependencies
RECURSIVE MediaLoop(_, _, _)
MediaLoop(tpl_zip, i, o) ==
    IF i > Len(tpl_zip) THEN o
    ELSE LET item == tpl_zip[i].name
         IN  MediaLoop(tpl_zip, i + 1,
                       IF StartsWith(item, "word/media/") /\ item \notin Namelist(o)
                       THEN Writestr(o, item, ZipRead(tpl_zip, item))
                       ELSE o)

\* Mutant: the copy does not test whether the name is already written.
RECURSIVE MediaLoopOverwriting(_, _, _)
MediaLoopOverwriting(tpl_zip, i, o) ==
    IF i > Len(tpl_zip) THEN o
    ELSE LET item == tpl_zip[i].name
         IN  MediaLoopOverwriting(tpl_zip, i + 1,
                                  IF StartsWith(item, "word/media/")
                                  THEN Writestr(o, item, ZipRead(tpl_zip, item))
                                  ELSE o)

ensure_media_overwriting(tpl_zip, o) == MediaLoopOverwriting(tpl_zip, 1, o)

\* Mutant: the prefix tested is the one relationship targets use.
RECURSIVE MediaLoopWrongPrefix(_, _, _)
MediaLoopWrongPrefix(tpl_zip, i, o) ==
    IF i > Len(tpl_zip) THEN o
    ELSE LET item == tpl_zip[i].name
         IN  MediaLoopWrongPrefix(tpl_zip, i + 1,
                                  IF StartsWith(item, "media/") /\ item \notin Namelist(o)
                                  THEN Writestr(o, item, ZipRead(tpl_zip, item))
                                  ELSE o)

ensure_media_wrong_prefix(tpl_zip, o) == MediaLoopWrongPrefix(tpl_zip, 1, o)

ensure_media_dependencies(tpl_zip, o) == MediaLoop(tpl_zip, 1, o)

\* Writing one selected part and, if the template has it, its rels file.
WritePart(tpl_zip, o, bytes, name, outName, outRels) ==
    IF bytes.kind = "none" THEN o
    ELSE LET o1 == Writestr(o, outName, bytes)
             rels == "word/_rels/" \o Basename(name) \o ".rels"
         IN  IF name # None /\ HasEntry(tpl_zip, rels)
             THEN Writestr(o1, outRels, ZipRead(tpl_zip, rels))
             ELSE o1

WriteSelectedParts(tpl_zip, l, o) ==
    WritePart(tpl_zip,
              WritePart(tpl_zip, o, l.tpl_header_bytes, l.tpl_header_name, HeaderOut, HeaderRelsOut),
              l.tpl_footer_bytes, l.tpl_footer_name, FooterOut, FooterRelsOut)

(***************************************************************************)
(* The relationship manifest.                                              *)
(***************************************************************************)
ParseRels(l) ==
    IF l.doc_rels_bytes.kind # "none" THEN l.doc_rels_bytes ELSE RelsTree(<<>>)

IsHeaderFooterRel(rel) == EndsWith(rel.Type, "/header") \/ EndsWith(rel.Type, "/footer")

\* Mutant: only the Ids of the relationships that are kept.
CollectRetainedIds(root) ==
    {root.children[i].Id : i \in {j \in 1..Len(root.children) :
                                     /\ EndsWith(root.children[j].tag, "Relationship")
                                     /\ ~IsHeaderFooterRel(root.children[j])}}

\* used_ids: the Id of every Relationship child of the parsed manifest.
CollectUsedIds(root) ==
    {root.children[i].Id : i \in {j \in 1..Len(root.children) :
                                     EndsWith(root.children[j].tag, "Relationship")}}

\* The manifest with its header/footer relationships removed.
RemoveHeaderFooterRels(root) ==
    [root EXCEPT !.children =
        SelectSeq(root.children,
                  LAMBDA rel : ~(EndsWith(rel.tag, "Relationship") /\ IsHeaderFooterRel(rel)))]

MakeRid(i) == "rId" \o ToString(i)

RECURSIVE RidFrom(_, _)
RidFrom(i, used) == IF MakeRid(i) \notin used THEN MakeRid(i) ELSE RidFrom(i + 1, used)

\* new_rid: the candidate issued; the caller's used_ids gains it.
new_rid(used) == RidFrom(BaseRid, used)

\* Mutant: the candidate issued is not recorded.
MarkUsedForgets(used, cand) == used

\* used_ids.add(cand)
MarkUsed(used, cand) == used \cup {cand}

AddRel(root, id, type, target) ==
    [root EXCEPT !.children = Append(root.children, Relationship(id, type, target))]

EditRels(l) ==
    LET parsed == ParseRels(l)
        used0  == CollectUsedIds(parsed)
        root0  == RemoveHeaderFooterRels(parsed)
        hasH   == l.tpl_header_bytes.kind # "none"
        hasF   == l.tpl_footer_bytes.kind # "none"
        hid    == IF hasH THEN new_rid(used0) ELSE None
        used1  == IF hasH THEN MarkUsed(used0, hid) ELSE used0
        root1  == IF hasH THEN AddRel(root0, hid, HeaderRelType, "header1.xml") ELSE root0
        fid    == IF hasF THEN new_rid(used1) ELSE None
        root2  == IF hasF THEN AddRel(root1, fid, FooterRelType, "footer1.xml") ELSE root1
    IN  [l EXCEPT !.header_rel_id = hid, !.footer_rel_id = fid, !.rels_root = root2]

(***************************************************************************)
(* The document: every w:sectPr under the body gets the new references.    *)
(***************************************************************************)
ParseDoc(l) ==
    IF l.doc_xml_bytes.kind # "none" THEN l.doc_xml_bytes ELSE DocTree(TRUE, << <<>> >>)

IsReference(child) == child.tag = "headerReference" \/ child.tag = "footerReference"

\* Mutant: the old references are left in place.
EditSectKeepsOld(sect, hid, fid) ==
    LET withH == IF hid # None
                 THEN Append(sect, SectChild("headerReference", "default", hid))
                 ELSE sect
    IN  IF fid # None
        THEN Append(withH, SectChild("footerReference", "default", fid))
        ELSE withH

EditSect(sect, hid, fid) ==
    LET kept == SelectSeq(sect, LAMBDA child : ~IsReference(child))
        withH == IF hid # None
                 THEN Append(kept, SectChild("headerReference", "default", hid))
                 ELSE kept
    IN  IF fid # None
        THEN Append(withH, SectChild("footerReference", "default", fid))
        ELSE withH

\* Mutant: only the first w:sectPr is edited (find in place of findall).
EditDocFirstOnly(l) ==
    LET parsed   == ParseDoc(l)
        body     == IF parsed.hasBody THEN parsed.sects ELSE <<>>
        sect_prs == IF body = <<>> THEN << <<>> >> ELSE body
    IN  [l EXCEPT !.doc_root =
            DocTree(TRUE, [i \in 1..Len(sect_prs) |->
                              IF i = 1
                              THEN EditSect(sect_prs[i], l.header_rel_id, l.footer_rel_id)
                              ELSE sect_prs[i]])]

EditDoc(l) ==
    LET parsed   == ParseDoc(l)
        body     == IF parsed.hasBody THEN parsed.sects ELSE <<>>
        sect_prs == IF body = <<>> THEN << <<>> >> ELSE body
    IN  [l EXCEPT !.doc_root =
            DocTree(TRUE, [i \in 1..Len(sect_prs) |->
                              EditSect(sect_prs[i], l.header_rel_id, l.footer_rel_id)])]

(***************************************************************************)
(* The content-type registry.                                              *)
(***************************************************************************)
ParseTypes(l) ==
    IF l.content_types_bytes.kind # "none" THEN l.content_types_bytes ELSE TypesTree(<<>>)

\* Mutant: an Override is appended whether or not one exists.
ensure_override_appends(root, part_name, content_type) ==
    [root EXCEPT !.children = Append(root.children, Override(part_name, content_type))]

ensure_override(root, part_name, content_type) ==
    LET hits == {i \in 1..Len(root.children) :
                    /\ root.children[i].tag = "Override"
                    /\ root.children[i].PartName = part_name}
    IN  IF hits # {}
        THEN LET first == CHOOSE i \in hits : \A j \in hits : i <= j
             IN  [root EXCEPT !.children[first].ContentType = content_type]
        ELSE [root EXCEPT !.children = Append(root.children, Override(part_name, content_type))]

EditTypes(l) ==
    LET root0 == ParseTypes(l)
        root1 == IF l.tpl_header_bytes.kind # "none"
                 THEN ensure_override(root0, "/word/header1.xml", HeaderContentType)
                 ELSE root0
        root2 == IF l.tpl_footer_bytes.kind # "none"
                 THEN ensure_override(root1, "/word/footer1.xml", FooterContentType)
                 ELSE root1
    IN  [l EXCEPT !.ct_root = root2]

\* The three final writes.
WriteCoreParts(l, o) ==
    Writestr(Writestr(Writestr(o, ContentTypesName, l.ct_root),
                      DocRelsName, l.rels_root),
             DocName, l.doc_root)

(***************************************************************************)
(* The inputs of a call: the two paths, and what the disk holds at the     *)
(* source, template and destination paths.  Each family below varies one   *)
(* aspect of the inputs and holds the others at a base value.              *)
(***************************************************************************)
RECURSIVE SubSeqs(_)
SubSeqs(s) ==
    IF s = <<>> THEN {<<>>}
    ELSE LET rest == SubSeqs(Tail(s))
         IN  rest \cup {<<Head(s)>> \o t : t \in rest}

\* Choices(<<S1, ..., Sn>>): the sequences taking zero or one element of each Si, in order.
RECURSIVE Choices(_)
Choices(sets) ==
    IF sets = <<>> THEN {<<>>}
    ELSE LET rest == Choices(Tail(sets))
         IN  rest \cup {<<x>> \o t : x \in Head(sets), t \in rest}

Entry(n, d) == [name |-> n, data |-> d]

Missing == [kind |-> "missing"]

Garbage == [kind |-> "garbage"]

OldFile == [kind |-> "old"]

Partial == [kind |-> "partial"]

ZipFile(entries) == [kind |-> "zip", entries |-> entries]

BaseRels ==
    RelsTree(<< Relationship("rId1", HeaderRelType, "header2.xml"),
                Relationship("rId2", ImageRelType, "media/image1.png") >>)

BaseDoc ==
    DocTree(TRUE, << << SectChild("pgSz", "", ""),
                        SectChild("headerReference", "default", "rId1") >> >>)

BaseTypes ==
    TypesTree(<< DefaultExt("xml", "application/xml"),
                 Override("/word/document.xml", DocContentType) >>)

BaseCore ==
    << Entry(ContentTypesName, BaseTypes), Entry(DocRelsName, BaseRels), Entry(DocName, BaseDoc) >>

BaseSrc == ZipFile(BaseCore \o << Entry("word/styles.xml", Bin(1)) >>)

TplHeader1 == Entry("word/header1.xml", Bin(11))

TplFooter1 == Entry("word/footer1.xml", Bin(13))

BaseTpl == ZipFile(<< Entry(DocName, BaseDoc), TplHeader1, TplFooter1 >>)

\* Templates with and without a header part and a footer part.
TplHF == {ZipFile(<< Entry(DocName, BaseDoc) >> \o t) : t \in SubSeqs(<< TplHeader1, TplFooter1 >>)}

Input(sp, tp, sf, tf, df) ==
    [srcPath |-> sp, tplPath |-> tp, srcFile |-> sf, tplFile |-> tf, dstFile |-> df]

\* Paths and disk states.
PathInputs ==
    {Input(sp, tp, sf, tf, df) :
        sp \in {"a.docx", "A.DOCX", "a.doc"}, tp \in {"t.docx", "t.doc"},
        sf \in {Missing, Garbage, BaseSrc}, tf \in {Missing, Garbage, BaseTpl},
        df \in {Missing, OldFile}}

\* Entries of the source and of the template.
SrcExtras ==
    Choices(<< {Entry("word/styles.xml", Bin(1))},
               {Entry("word/media/image1.png", Bin(2)), Entry("word/media/image1.png", Bin(3))},
               {Entry("word/header1.xml", Bin(4))},
               {Entry("word/_rels/header1.xml.rels", Bin(5))} >>)

TplExtras ==
    SubSeqs(<< Entry("word/header2.xml", Bin(12)),
               Entry("word/header10.xml", Bin(10)),
               Entry("word/_rels/header2.xml.rels", Bin(15)),
               Entry("word/_rels/header10.xml.rels", Bin(14)),
               Entry("word/footer1.xml", Bin(13)),
               Entry("word/media/image1.png", Bin(2)) >>)

PartInputs ==
    {Input("a.docx", "t.docx", ZipFile(BaseCore \o s), ZipFile(t), Missing) :
        s \in SrcExtras, t \in TplExtras}

\* The relationship manifest of the source.
RelOptions(id) ==
    { Relationship(id, HeaderRelType, "header1.xml"),
      Relationship(id, FooterRelType, "footer1.xml"),
      Relationship(id, ImageRelType, "media/image1.png") }

SrcRels ==
    {<<>>} \cup
    {<< Entry(DocRelsName, RelsTree(r)) >> :
        r \in Choices(<< RelOptions("rId1"), RelOptions("rId9001"), RelOptions("rId9002") >>)}

RelsInputs ==
    {Input("a.docx", "t.docx",
           ZipFile(<< Entry(ContentTypesName, BaseTypes), Entry(DocName, BaseDoc) >> \o r),
           t, Missing) :
        r \in SrcRels, t \in TplHF}

\* The document of the source.
SectPool ==
    {<< SectChild("pgSz", "", "") >> \o refs :
        refs \in SubSeqs(<< SectChild("headerReference", "first", "rId1"),
                            SectChild("footerReference", "default", "rId9001") >>)}

RECURSIVE SectSeqs(_)
SectSeqs(n) ==
    IF n = 0 THEN {<<>>}
    ELSE LET shorter == SectSeqs(n - 1)
         IN  shorter \cup {Append(ss, s) : ss \in {t \in shorter : Len(t) = n - 1}, s \in SectPool}

SrcDocs ==
    {<<>>, << Entry(DocName, DocTree(FALSE, <<>>)) >>} \cup
    {<< Entry(DocName, DocTree(TRUE, ss)) >> : ss \in SectSeqs(MaxSects)}

DocInputs ==
    {Input("a.docx", "t.docx",
           ZipFile(<< Entry(ContentTypesName, BaseTypes), Entry(DocRelsName, BaseRels) >> \o d),
           t, Missing) :
        d \in SrcDocs, t \in TplHF}

\* The content-type registry of the source (at most one Override per PartName).
SrcTypes ==
    {<<>>} \cup
    {<< Entry(ContentTypesName, TypesTree(c)) >> :
        c \in Choices(<< {DefaultExt("xml", "application/xml")},
                         {Override("/word/header1.xml", HeaderContentType),
                          Override("/word/header1.xml", "application/xml")},
                         {Override("/word/document.xml", DocContentType)},
                         {Override("/word/footer1.xml", FooterContentType),
                          Override("/word/footer1.xml", HeaderContentType)} >>)}

TypesInputs ==
    {Input("a.docx", "t.docx",
           ZipFile(c \o << Entry(DocRelsName, BaseRels), Entry(DocName, BaseDoc) >>),
           t, Missing) :
        c \in SrcTypes, t \in TplHF}

Inputs == PathInputs \cup PartInputs \cup RelsInputs \cup DocInputs \cup TypesInputs

(***************************************************************************)
(* State of one call apply_template_to_docx(src_path, tpl_path, dst_path). *)
(***************************************************************************)
VARIABLES
    pc,        \* position in apply_template_to_docx
    srcPath,   \* src_path
    tplPath,   \* tpl_path
    srcFile,   \* what the disk holds at src_path
    tplFile,   \* what the disk holds at tpl_path
    dstFile,   \* what the disk holds at dst_path
    dstPre,    \* what it held when the call began
    tmpFile,   \* what the disk holds at tmp_out
    srcOpen,   \* src_zip: "never", "open" or "closed"
    tplOpen,   \* tpl_zip
    outOpen,   \* out_zip
    seals,     \* how many times out_zip has been closed
    out,       \* the entries written to out_zip so far
    loc,       \* the locals of _replace_header_footer_parts
    exc,       \* an exception is propagating
    result     \* "running", "returned" or "raised"

vars == << pc, srcPath, tplPath, srcFile, tplFile, dstFile, dstPre, tmpFile,
           srcOpen, tplOpen, outOpen, seals, out, loc, exc, result >>

disk == << srcPath, tplPath, srcFile, tplFile, dstPre >>

Init ==
    \E in \in Inputs :
        /\ srcPath = in.srcPath
        /\ tplPath = in.tplPath
        /\ srcFile = in.srcFile
        /\ tplFile = in.tplFile
        /\ dstFile = in.dstFile
        /\ dstPre = in.dstFile
        /\ tmpFile = Missing
        /\ pc = "check_ext"
        /\ srcOpen = "never"
        /\ tplOpen = "never"
        /\ outOpen = "never"
        /\ seals = 0
        /\ out = <<>>
        /\ loc = InitLocals
        /\ exc = FALSE
        /\ result = "running"

IsDocx(path) == EndsWith(Lower(path), ".docx")

\* if not ...endswith('.docx') ...: raise ValueError
CheckExt ==
    /\ pc = "check_ext"
    /\ IF ~IsDocx(srcPath) \/ ~IsDocx(tplPath)
       THEN pc' = "done" /\ result' = "raised"
       ELSE pc' = "mkstemp" /\ result' = result
    /\ UNCHANGED << disk, dstFile, tmpFile, srcOpen, tplOpen, outOpen, seals, out, loc, exc >>

\* tempfile.mkstemp; os.close
Mkstemp ==
    /\ pc = "mkstemp"
    /\ tmpFile' = [kind |-> "file"]
    /\ pc' = "open_src"
    /\ UNCHANGED << disk, dstFile, srcOpen, tplOpen, outOpen, seals, out, loc, exc, result >>

\* zipfile.ZipFile(src_path, 'r')
OpenSrc ==
    /\ pc = "open_src"
    /\ IF srcFile.kind = "zip"
       THEN srcOpen' = "open" /\ pc' = "open_tpl" /\ exc' = exc
       ELSE srcOpen' = srcOpen /\ pc' = "except" /\ exc' = TRUE
    /\ UNCHANGED << disk, dstFile, tmpFile, tplOpen, outOpen, seals, out, loc, result >>

\* zipfile.ZipFile(tpl_path, 'r'); if it raises, the with statement closes src_zip
OpenTpl ==
    /\ pc = "open_tpl"
    /\ IF tplFile.kind = "zip"
       THEN tplOpen' = "open" /\ srcOpen' = srcOpen /\ pc' = "open_out" /\ exc' = exc
       ELSE tplOpen' = tplOpen /\ srcOpen' = "closed" /\ pc' = "except" /\ exc' = TRUE
    /\ UNCHANGED << disk, dstFile, tmpFile, outOpen, seals, out, loc, result >>

\* zipfile.ZipFile(tmp_out, 'w')
OpenOut ==
    /\ pc = "open_out"
    /\ outOpen' = "open"
    /\ out' = <<>>
    /\ pc' = "copy_source"
    /\ UNCHANGED << disk, dstFile, tmpFile, srcOpen, tplOpen, seals, loc, exc, result >>

\* ... or it raises (I/O error): the with statement closes tpl_zip and src_zip
OpenOutFail ==
    /\ pc = "open_out"
    /\ tplOpen' = "closed"
    /\ srcOpen' = "closed"
    /\ exc' = TRUE
    /\ pc' = "except"
    /\ UNCHANGED << disk, dstFile, tmpFile, outOpen, seals, out, loc, result >>

body_frame == << disk, dstFile, tmpFile, srcOpen, tplOpen, outOpen, seals, exc, result >>

CopySource ==
    /\ pc = "copy_source"
    /\ loc' = BufferCoreParts(srcFile.entries, loc)
    /\ out' = CopySourceParts(srcFile.entries, out)
    /\ pc' = "pick_template"
    /\ UNCHANGED body_frame

PickTemplate ==
    /\ pc = "pick_template"
    /\ loc' = PickTemplateParts(tplFile.entries, loc)
    /\ pc' = "copy_media"
    /\ UNCHANGED << body_frame, out >>

CopyMedia ==
    /\ pc = "copy_media"
    /\ out' = ensure_media_dependencies(tplFile.entries, out)
    /\ pc' = "write_parts"
    /\ UNCHANGED << body_frame, loc >>

WriteParts ==
    /\ pc = "write_parts"
    /\ out' = WriteSelectedParts(tplFile.entries, loc, out)
    /\ pc' = "edit_rels"
    /\ UNCHANGED << body_frame, loc >>

EditRelsStep ==
    /\ pc = "edit_rels"
    /\ loc' = EditRels(loc)
    /\ pc' = "edit_doc"
    /\ UNCHANGED << body_frame, out >>

EditDocStep ==
    /\ pc = "edit_doc"
    /\ loc' = EditDoc(loc)
    /\ pc' = "edit_types"
    /\ UNCHANGED << body_frame, out >>

EditTypesStep ==
    /\ pc = "edit_types"
    /\ loc' = EditTypes(loc)
    /\ pc' = "write_core"
    /\ UNCHANGED << body_frame, out >>

\* The three final writes; the function returns and the with block ends.
WriteCore ==
    /\ pc = "write_core"
    /\ out' = WriteCoreParts(loc, out)
    /\ loc' = InitLocals
    /\ pc' = "close_out"
    /\ UNCHANGED body_frame

BodyPcs ==
    {"copy_source", "pick_template", "copy_media", "write_parts",
     "edit_rels", "edit_doc", "edit_types", "write_core"}

\* Any read, parse or write of the rewrite raises: the with block is left.
BodyFail ==
    /\ pc \in BodyPcs
    /\ exc' = TRUE
    /\ loc' = InitLocals
    /\ pc' = "close_out"
    /\ UNCHANGED << disk, dstFile, tmpFile, srcOpen, tplOpen, outOpen, seals, out, result >>

\* out_zip.__exit__: close writes the central directory to tmp_out.
CloseOut ==
    /\ pc = "close_out"
    /\ outOpen' = "closed"
    /\ seals' = seals + 1
    /\ tmpFile' = ZipFile(out)
    /\ out' = <<>>
    /\ pc' = "close_tpl"
    /\ UNCHANGED << disk, dstFile, srcOpen, tplOpen, loc, exc, result >>

\* ... or the close raises (I/O error); the handle is released all the same.
CloseOutFail ==
    /\ pc = "close_out"
    /\ outOpen' = "closed"
    /\ seals' = seals + 1
    /\ tmpFile' = [kind |-> "file"]
    /\ out' = <<>>
    /\ exc' = TRUE
    /\ pc' = "close_tpl"
    /\ UNCHANGED << disk, dstFile, srcOpen, tplOpen, loc, result >>

CloseTpl ==
    /\ pc = "close_tpl"
    /\ tplOpen' = "closed"
    /\ pc' = "close_src"
    /\ UNCHANGED << disk, dstFile, tmpFile, srcOpen, outOpen, seals, out, loc, exc, result >>

CloseSrc ==
    /\ pc = "close_src"
    /\ srcOpen' = "closed"
    /\ pc' = IF exc THEN "except" ELSE "makedirs"
    /\ UNCHANGED << disk, dstFile, tmpFile, tplOpen, outOpen, seals, out, loc, exc, result >>

handles == << srcOpen, tplOpen, outOpen, seals, out, loc >>

\* os.makedirs(..., exist_ok=True)
Makedirs ==
    /\ pc = "makedirs"
    /\ pc' = "move"
    /\ UNCHANGED << disk, dstFile, tmpFile, handles, exc, result >>

MakedirsFail ==
    /\ pc = "makedirs"
    /\ exc' = TRUE
    /\ pc' = "except"
    /\ UNCHANGED << disk, dstFile, tmpFile, handles, result >>

\* shutil.move, tmp_out and dst_path on one file system: os.rename.
MoveRename ==
    /\ pc = "move"
    /\ dstFile' = tmpFile
    /\ tmpFile' = Missing
    /\ result' = "returned"
    /\ pc' = "done"
    /\ UNCHANGED << disk, handles, exc >>

\* os.rename raises and shutil.move gives up (e.g. permission denied).
MoveFail ==
    /\ pc = "move"
    /\ exc' = TRUE
    /\ pc' = "except"
    /\ UNCHANGED << disk, dstFile, tmpFile, handles, result >>

\* shutil.move across file systems: os.rename raises, and the file is copied
\* (the destination is opened for writing, which truncates it) ...
MoveCopyBegin ==
    /\ pc = "move"
    /\ dstFile' = Partial
    /\ pc' = "copying"
    /\ UNCHANGED << disk, tmpFile, handles, exc, result >>

\* ... to the end, and tmp_out is unlinked;
MoveCopyEnd ==
    /\ pc = "copying"
    /\ dstFile' = tmpFile
    /\ tmpFile' = Missing
    /\ result' = "returned"
    /\ pc' = "done"
    /\ UNCHANGED << disk, handles, exc >>

\* ... or the copy raises part-way (I/O error, disk full).
MoveCopyFail ==
    /\ pc = "copying"
    /\ exc' = TRUE
    /\ pc' = "except"
    /\ UNCHANGED << disk, dstFile, tmpFile, handles, result >>

\* Mutant: the handler re-raises without removing tmp_out.
ExceptKeepsTemp ==
    /\ pc = "except"
    /\ result' = "raised"
    /\ pc' = "done"
    /\ UNCHANGED << disk, dstFile, tmpFile, handles, exc >>

\* except Exception: remove tmp_out if it exists; raise
Except ==
    /\ pc = "except"
    /\ tmpFile' = Missing
    /\ result' = "raised"
    /\ pc' = "done"
    /\ UNCHANGED << disk, dstFile, handles, exc >>

Next ==
    \/ CheckExt
    \/ Mkstemp
    \/ OpenSrc
    \/ OpenTpl
    \/ OpenOut
    \/ OpenOutFail
    \/ CopySource
    \/ PickTemplate
    \/ CopyMedia
    \/ WriteParts
    \/ EditRelsStep
    \/ EditDocStep
    \/ EditTypesStep
    \/ WriteCore
    \/ BodyFail
    \/ CloseOut
    \/ CloseOutFail
    \/ CloseTpl
    \/ CloseSrc
    \/ Makedirs
    \/ MakedirsFail
    \/ MoveRename
    \/ MoveFail
    \/ MoveCopyBegin
    \/ MoveCopyEnd
    \/ MoveCopyFail
    \/ Except

Spec == Init /\ [][Next]_vars

(***************************************************************************)
(* Vocabulary of the properties: the outcome of the call, the three        *)
(* packages, and the part classes as the specification words them.         *)
(***************************************************************************)
Succeeded == pc = "done" /\ result = "returned"

Failed == pc = "done" /\ result = "raised"

SrcPkg == srcFile.entries

TplPkg == tplFile.entries

OutPkg == dstFile.entries

EntryCount(z, n) == Cardinality({i \in 1..Len(z) : z[i].name = n})

HeaderPartName(n) == StartsWith(n, "word/header") /\ EndsWith(n, ".xml")

FooterPartName(n) == StartsWith(n, "word/footer") /\ EndsWith(n, ".xml")

HeaderFooterRelsName(n) ==
    /\ StartsWith(n, "word/_rels/")
    /\ EndsWith(n, ".rels")
    /\ StartsWith(Basename(n), "header") \/ StartsWith(Basename(n), "footer")

TplHeaders == {n \in Namelist(TplPkg) : HeaderPartName(n)}

TplFooters == {n \in Namelist(TplPkg) : FooterPartName(n)}

Smallest(names) == CHOOSE n \in names : \A m \in names \ {n} : StrLess(n, m)

RelsFileOf(n) == "word/_rels/" \o Basename(n) \o ".rels"

ChildrenOf(z, n) == IF HasEntry(z, n) THEN ZipRead(z, n).children ELSE <<>>

Range(s) == {s[i] : i \in 1..Len(s)}

IdsOf(rels) == {rels[i].Id : i \in 1..Len(rels)}

OutRels == ChildrenOf(OutPkg, DocRelsName)

SrcRelsOf == ChildrenOf(SrcPkg, DocRelsName)

OutHeaderIds == {r.Id : r \in {x \in Range(OutRels) : x.Type = HeaderRelType}}

OutFooterIds == {r.Id : r \in {x \in Range(OutRels) : x.Type = FooterRelType}}

\* rId<n> for the smallest n >= 9001 with rId<n> not in ids.
SmallestFreeRid(ids) ==
    LET top == BaseRid + Cardinality(ids)
        n   == CHOOSE k \in BaseRid..top :
                   /\ MakeRid(k) \notin ids
                   /\ \A m \in BaseRid..(k - 1) : MakeRid(m) \in ids
    IN  MakeRid(n)

(***************************************************************************)
(* C1.  Failure atomicity: when the call fails, at whatever step, the      *)
(* file at dst_path is what it was before the call (absent, or its         *)
(* previous bytes), never a partially written package.                     *)
(***************************************************************************)
C1_FailureAtomicity == result = "raised" => dstFile = dstPre

(***************************************************************************)
(* C2.  Passthrough: after a successful call, every source entry that is   *)
(* not the document, its manifest, the registry, a header/footer part or a *)
(* header/footer relationship file is in the output under its name with    *)
(* the source's bytes, also when the template has a media entry of that    *)
(* name.                                                                   *)
(***************************************************************************)
IsPassthroughName(n) ==
    /\ n \notin {DocName, DocRelsName, ContentTypesName}
    /\ ~HeaderPartName(n)
    /\ ~FooterPartName(n)
    /\ ~HeaderFooterRelsName(n)

C2_Passthrough ==
    Succeeded =>
        \A i \in 1..Len(SrcPkg) :
            IsPassthroughName(SrcPkg[i].name) =>
                /\ HasEntry(OutPkg, SrcPkg[i].name)
                /\ ZipRead(OutPkg, SrcPkg[i].name) = SrcPkg[i].data

\* A source media entry whose name the template also has, with other bytes.
C2_Witness ==
    /\ Succeeded
    /\ \E i \in 1..Len(SrcPkg) :
          /\ StartsWith(SrcPkg[i].name, "word/media/")
          /\ HasEntry(TplPkg, SrcPkg[i].name)
          /\ ZipRead(TplPkg, SrcPkg[i].name) # SrcPkg[i].data
          /\ ZipRead(OutPkg, SrcPkg[i].name) = SrcPkg[i].data

(***************************************************************************)
(* C7.  As claimed: after a successful call every word/media/ entry of the *)
(* template is in the output with the template's bytes, whatever the       *)
(* source holds.                                                           *)
(***************************************************************************)
C7_TemplateMediaVerbatim ==
    Succeeded =>
        \A i \in 1..Len(TplPkg) :
            StartsWith(TplPkg[i].name, "word/media/") =>
                /\ HasEntry(OutPkg, TplPkg[i].name)
                /\ ZipRead(OutPkg, TplPkg[i].name) = TplPkg[i].data

(***************************************************************************)
(* C7, amended.  After a successful call every word/media/ entry of the    *)
(* template has an entry of its name in the output; its bytes are the      *)
(* template's when the source has no entry of that name, and the source's  *)
(* when it has one.                                                        *)
(***************************************************************************)
C7_TemplateMediaUnlessInSource ==
    Succeeded =>
        \A i \in 1..Len(TplPkg) :
            StartsWith(TplPkg[i].name, "word/media/") =>
                /\ HasEntry(OutPkg, TplPkg[i].name)
                /\ ZipRead(OutPkg, TplPkg[i].name) =
                      IF HasEntry(SrcPkg, TplPkg[i].name)
                      THEN ZipRead(SrcPkg, TplPkg[i].name)
                      ELSE TplPkg[i].data

\* A template media entry that the source does not have reaches the output.
C7_Witness ==
    /\ Succeeded
    /\ \E i \in 1..Len(TplPkg) :
          /\ StartsWith(TplPkg[i].name, "word/media/")
          /\ ~HasEntry(SrcPkg, TplPkg[i].name)
          /\ \A j \in 1..Len(SrcPkg) : ~StartsWith(SrcPkg[j].name, "word/media/")
          /\ ZipRead(OutPkg, TplPkg[i].name) = TplPkg[i].data

(***************************************************************************)
(* C8.  Installed parts come only from the template: after a successful    *)
(* call word/header1.xml is in the output exactly when the template has a  *)
(* header part, with the bytes of the template header part of the smallest *)
(* name; word/_rels/header1.xml.rels is there exactly when the template    *)
(* has the relationship file of that part, with its bytes; the same for    *)
(* the footer; and the output has no other header/footer part or           *)
(* header/footer relationship file.                                        *)
(***************************************************************************)
InstalledFrom(names, outName, outRels) ==
    /\ HasEntry(OutPkg, outName) <=> names # {}
    /\ names # {} =>
          /\ EntryCount(OutPkg, outName) = 1
          /\ ZipRead(OutPkg, outName) = ZipRead(TplPkg, Smallest(names))
    /\ HasEntry(OutPkg, outRels) <=>
          (names # {} /\ HasEntry(TplPkg, RelsFileOf(Smallest(names))))
    /\ HasEntry(OutPkg, outRels) =>
          /\ EntryCount(OutPkg, outRels) = 1
          /\ ZipRead(OutPkg, outRels) = ZipRead(TplPkg, RelsFileOf(Smallest(names)))

C8_InstalledParts ==
    Succeeded =>
        /\ InstalledFrom(TplHeaders, HeaderOut, HeaderRelsOut)
        /\ InstalledFrom(TplFooters, FooterOut, FooterRelsOut)
        /\ \A n \in Namelist(OutPkg) :
              /\ (HeaderPartName(n) \/ FooterPartName(n)) => n \in {HeaderOut, FooterOut}
              /\ HeaderFooterRelsName(n) => n \in {HeaderRelsOut, FooterRelsOut}

\* Two template headers whose order by name is not their order in the
\* package, the selected one with a relationship file, no template footer,
\* and a source that had a header part of its own.
C8_Witness ==
    /\ Succeeded
    /\ Cardinality(TplHeaders) = 2
    /\ TplPkg[1].name # Smallest(TplHeaders)
    /\ HasEntry(TplPkg, RelsFileOf(Smallest(TplHeaders)))
    /\ TplFooters = {}
    /\ HasEntry(SrcPkg, HeaderOut)
    /\ ZipRead(OutPkg, HeaderOut) # ZipRead(SrcPkg, HeaderOut)

OutDoc == ZipRead(OutPkg, DocName)

SrcDocSects == IF HasEntry(SrcPkg, DocName) THEN ZipRead(SrcPkg, DocName).sects ELSE <<>>

RefsOf(sect) == SelectSeq(sect, LAMBDA c : c.tag \in {"headerReference", "footerReference"})

(***************************************************************************)
(* C3.  No stale references: after a successful call, the Id of every      *)
(* header or footer reference of every section-properties block of the     *)
(* output document is the Id of a relationship of the output manifest.     *)
(***************************************************************************)
C3_NoStaleReferences ==
    Succeeded =>
        \A i \in 1..Len(OutDoc.sects) :
            \A ref \in Range(RefsOf(OutDoc.sects[i])) : ref.id \in IdsOf(OutRels)

\* Several sections, a first-page reference to a header relationship that
\* the call drops, and a template without a footer.
C3_Witness ==
    /\ Succeeded
    /\ Len(SrcDocSects) >= 2
    /\ \E i \in 1..Len(SrcDocSects) :
          \E ref \in Range(RefsOf(SrcDocSects[i])) :
              /\ ref.type = "first"
              /\ ref.id \in IdsOf(SrcRelsOf)
              /\ ref.id \notin IdsOf(OutRels)
    /\ TplHeaders # {}
    /\ TplFooters = {}

(***************************************************************************)
(* C4.  Uniform reference set: after a successful call the output document *)
(* has at least one section-properties block, and each of them holds       *)
(* exactly: one default header reference with the new header relationship  *)
(* Id if and only if the template has a header part, one default footer    *)
(* reference with the new footer relationship Id if and only if the        *)
(* template has a footer part, and no other header or footer reference.    *)
(***************************************************************************)
ExpectedRefs ==
    {SectChild("headerReference", "default", id) : id \in IF TplHeaders # {} THEN OutHeaderIds ELSE {}}
    \cup
    {SectChild("footerReference", "default", id) : id \in IF TplFooters # {} THEN OutFooterIds ELSE {}}

C4_UniformReferences ==
    Succeeded =>
        /\ OutDoc.hasBody
        /\ Len(OutDoc.sects) >= 1
        /\ Cardinality(ExpectedRefs) =
              (IF TplHeaders # {} THEN 1 ELSE 0) + (IF TplFooters # {} THEN 1 ELSE 0)
        /\ \A i \in 1..Len(OutDoc.sects) :
              /\ Range(RefsOf(OutDoc.sects[i])) = ExpectedRefs
              /\ Len(RefsOf(OutDoc.sects[i])) = Cardinality(ExpectedRefs)

\* Three sections with different references in the source.
C4_Witness ==
    /\ Succeeded
    /\ Len(SrcDocSects) = 3
    /\ RefsOf(SrcDocSects[1]) # RefsOf(SrcDocSects[2])
    /\ RefsOf(SrcDocSects[3]) # <<>>
    /\ TplHeaders # {}
    /\ TplFooters # {}

(***************************************************************************)
(* C5.  Id uniqueness and preservation: after a successful call on a       *)
(* source whose manifest Ids are pairwise distinct, the Ids of the output  *)
(* manifest are pairwise distinct; every source relationship whose Type    *)
(* does not end in /header or /footer is in it unchanged; no source        *)
(* relationship whose Type ends in /header or /footer is in it; and it     *)
(* has one new header relationship, Target header1.xml, exactly when the   *)
(* template has a header part, and likewise a footer one.                  *)
(***************************************************************************)
EndsHeaderFooter(r) == EndsWith(r.Type, "/header") \/ EndsWith(r.Type, "/footer")

NewRels(type) ==
    {i \in 1..Len(OutRels) : OutRels[i].Type = type /\ OutRels[i] \notin Range(SrcRelsOf)}

C5_IdsUniqueAndPreserved ==
    Succeeded =>
        /\ \A i, j \in 1..Len(OutRels) : OutRels[i].Id = OutRels[j].Id => i = j
        /\ SelectSeq(OutRels, LAMBDA r : r \in Range(SrcRelsOf)) =
              SelectSeq(SrcRelsOf, LAMBDA r : ~EndsHeaderFooter(r))
        /\ Cardinality(NewRels(HeaderRelType)) = IF TplHeaders # {} THEN 1 ELSE 0
        /\ Cardinality(NewRels(FooterRelType)) = IF TplFooters # {} THEN 1 ELSE 0
        /\ \A i \in NewRels(HeaderRelType) : OutRels[i].Target = "header1.xml"
        /\ \A i \in NewRels(FooterRelType) : OutRels[i].Target = "footer1.xml"
        /\ Len(OutRels) = Len(SelectSeq(SrcRelsOf, LAMBDA r : ~EndsHeaderFooter(r)))
                          + Cardinality(NewRels(HeaderRelType))
                          + Cardinality(NewRels(FooterRelType))

\* A retained image relationship holds rId9001, a header relationship is
\* dropped, and both new relationships are added.
C5_Witness ==
    /\ Succeeded
    /\ \E r \in Range(SrcRelsOf) : r.Id = MakeRid(BaseRid) /\ r.Type = ImageRelType
    /\ \E r \in Range(SrcRelsOf) : r.Type = HeaderRelType
    /\ TplHeaders # {}
    /\ TplFooters # {}
    /\ Len(OutRels) = Len(SrcRelsOf) + 1

(***************************************************************************)
(* C6.  Content-type completeness: after a successful call, if a header    *)
(* part is installed the output registry has exactly one Override for      *)
(* /word/header1.xml and its type is the header type; likewise for         *)
(* /word/footer1.xml and the footer type; and every other child of the     *)
(* source registry is unchanged.                                           *)
(***************************************************************************)
OutTypes == ChildrenOf(OutPkg, ContentTypesName)

SrcTypesOf == ChildrenOf(SrcPkg, ContentTypesName)

OverridesFor(children, part) ==
    {i \in 1..Len(children) : children[i].tag = "Override" /\ children[i].PartName = part}

InstalledPartNames ==
    (IF TplHeaders # {} THEN {"/word/header1.xml"} ELSE {}) \cup
    (IF TplFooters # {} THEN {"/word/footer1.xml"} ELSE {})

IsInstalledOverride(c) == c.tag = "Override" /\ c.PartName \in InstalledPartNames

C6_ContentTypes ==
    Succeeded =>
        /\ TplHeaders # {} =>
              /\ Cardinality(OverridesFor(OutTypes, "/word/header1.xml")) = 1
              /\ \A i \in OverridesFor(OutTypes, "/word/header1.xml") :
                    OutTypes[i].ContentType = HeaderContentType
        /\ TplFooters # {} =>
              /\ Cardinality(OverridesFor(OutTypes, "/word/footer1.xml")) = 1
              /\ \A i \in OverridesFor(OutTypes, "/word/footer1.xml") :
                    OutTypes[i].ContentType = FooterContentType
        /\ SelectSeq(OutTypes, LAMBDA c : ~IsInstalledOverride(c)) =
              SelectSeq(SrcTypesOf, LAMBDA c : ~IsInstalledOverride(c))

\* The source registry had an Override for /word/header1.xml with another
\* type, and other children.
C6_Witness ==
    /\ Succeeded
    /\ TplHeaders # {}
    /\ \E i \in OverridesFor(SrcTypesOf, "/word/header1.xml") :
          SrcTypesOf[i].ContentType # HeaderContentType
    /\ Len(SrcTypesOf) >= 3

(***************************************************************************)
(* C9.  As claimed: the header Id issued is rId<n> for the smallest        *)
(* n >= 9001 that is not the Id of a relationship retained after the old   *)
(* header/footer relationships are dropped, and the footer Id the smallest *)
(* that is neither retained nor the header Id.                             *)
(***************************************************************************)
RetainedIds == IdsOf(SelectSeq(SrcRelsOf, LAMBDA r : ~EndsHeaderFooter(r)))

C9_SmallestAboveRetained ==
    Succeeded =>
        /\ TplHeaders # {} => OutHeaderIds = {SmallestFreeRid(RetainedIds)}
        /\ TplFooters # {} => OutFooterIds = {SmallestFreeRid(RetainedIds \cup OutHeaderIds)}

(***************************************************************************)
(* C9, amended.  The header Id issued is rId<n> for the smallest n >= 9001 *)
(* that is not the Id of any relationship of the source manifest, the      *)
(* dropped header/footer relationships included, and the footer Id the     *)
(* smallest that is neither such an Id nor the header Id.                  *)
(***************************************************************************)
C9_SmallestAboveSource ==
    Succeeded =>
        /\ TplHeaders # {} => OutHeaderIds = {SmallestFreeRid(IdsOf(SrcRelsOf))}
        /\ TplFooters # {} =>
              OutFooterIds = {SmallestFreeRid(IdsOf(SrcRelsOf) \cup OutHeaderIds)}

\* The source is the output of an earlier call: header rId9001 and footer
\* rId9002, both dropped; the new Ids are rId9003 and rId9004.
C9_Witness ==
    /\ Succeeded
    /\ \E r \in Range(SrcRelsOf) : r.Id = "rId9001" /\ r.Type = HeaderRelType
    /\ \E r \in Range(SrcRelsOf) : r.Id = "rId9002" /\ r.Type = FooterRelType
    /\ OutHeaderIds = {"rId9003"}
    /\ OutFooterIds = {"rId9004"}

(***************************************************************************)
(* C10.  No temporary file outlives a call, and publication follows        *)
(* sealing: a call rejected for its extension creates no temporary file    *)
(* and opens no package; no handle is open when the temporary file is      *)
(* moved or deleted or the destination is written, and the output has then *)
(* been closed exactly once if it was opened; a failing call has deleted   *)
(* its temporary file when it raises, a successful one has moved it to the *)
(* destination; after the call the temporary path does not exist.          *)
(***************************************************************************)
NoHandleOpen == srcOpen # "open" /\ tplOpen # "open" /\ outOpen # "open"

C10_State ==
    /\ ~(IsDocx(srcPath) /\ IsDocx(tplPath)) =>
          /\ tmpFile = Missing
          /\ srcOpen = "never" /\ tplOpen = "never" /\ outOpen = "never"
    /\ seals <= 1
    /\ outOpen = "closed" <=> seals = 1
    /\ pc = "done" => tmpFile = Missing /\ NoHandleOpen
    /\ Failed => tmpFile = Missing

C10_Step ==
    /\ (tmpFile # Missing /\ tmpFile' = Missing) \/ dstFile' # dstFile =>
          /\ NoHandleOpen
          /\ outOpen # "never" => seals = 1
    /\ result = "running" /\ result' = "returned" =>
          /\ tmpFile.kind = "zip"
          /\ dstFile' = tmpFile
          /\ tmpFile' = Missing
    /\ result = "running" /\ result' = "raised" => tmpFile' = Missing

C10_TempAndHandles == [](C10_State) /\ [][C10_Step]_vars

\* A call that fails after the output was opened: it was sealed once and the
\* temporary file is gone.
C10_Witness == Failed /\ seals = 1 /\ srcOpen = "closed" /\ tplOpen = "closed" /\ tmpFile = Missing
====
